---------------------------- MODULE Spec2Model ----------------------------
(***************************************************************************)
(* A model of pinga (src/src/main.rs): the per-window ping monitor that    *)
(* PingApp::update runs once per frame, the blocking do_ping it calls, and *)
(* the plot segmenter inside the window closure.                           *)
(*                                                                         *)
(* Time is an integer clock in seconds (`now`); Instant::now(), Utc::now() *)
(* and Instant::elapsed() all read it.  Ping round-trip durations are kept *)
(* in milliseconds.                                                        *)
(***************************************************************************)
EXTENDS Integers, Sequences, FiniteSets, TLC

VARIABLES
    windows,   \* PingApp.windows: Vec<PingWindow>
    now,       \* the clock read by Instant::now() / Utc::now()
    pc,        \* where PingApp::update is: "idle" between frames, "tick" at the
               \* head of the loop body, "ping" inside do_ping, "ui" at
               \* window.show, "retain" after the loop, "panic" once unwound
    idx,       \* position of `win` in `for win in &mut self.windows`
    started,   \* the local `now = Utc::now()` taken before do_ping
    lookup,    \* do_ping's local `lookup`, the answer of dns_lookup::lookup_host
    lines,     \* the local `lines` of the plot branch of the frame
    clicked,   \* the pointer click of this frame has been delivered to a widget
    frame      \* the number of frames begun so far

vars == <<windows, now, pc, idx, started, lookup, lines, clicked, frame>>

---------------------------------------------------------------------------
(* Bounds of the exploration. *)

MaxTime == 2        \* the clock stops advancing here
MaxFrames == 3      \* no frame starts after this many
MaxWindows == 3     \* a double click adds a window only below this many
MaxEditFrames == 2  \* under EditSpec no frame starts after this many
MaxLiveFrames == 1  \* under LiveSpec the frames after this many bring no click

MaxHead == 1        \* segmenter input: free entries before the padding
MaxPad == 20        \* segmenter input: repetitions of the padding entry
MaxTail == 3        \* segmenter input: free entries after the padding

---------------------------------------------------------------------------
(* Data *)

None == << >>
Some(b) == << b >>

Failure == [kind |-> "Failure", d |-> 0]
Success(d) == [kind |-> "Success", d |-> d]

PLOT_LEN == 20

\* Duration::from_secs(1), in clock units
Cadence == 1

\* the answers of dns_lookup::lookup_host: Err(_), or Ok(list of addresses)
NoLookup == [state |-> "none", addrs |-> << >>]
LookupErr == [state |-> "err", addrs |-> << >>]
LookupOk(addrs) == [state |-> "ok", addrs |-> addrs]
Lookups == {LookupErr, LookupOk(<< >>), LookupOk(<<"ip1", "ip2">>)}

\* the answers of surge_ping::ping: Ok((_, duration)) or Err(_)
PingErr == [ok |-> FALSE, d |-> 0]
PingOk(d) == [ok |-> TRUE, d |-> d]
\* (the round trip named here is 10 ms: the monitor never reads it, and the
\* segmenter is explored over several latencies under SegSpec)
Replies == {PingErr, PingOk(10)}

\* PingWindow::new
new(hostname, address, t) ==
    [ hostname |-> hostname,
      address |-> address,
      group |-> 0,
      open |-> TRUE,
      scanning |-> FALSE,
      show_plot |-> FALSE,
      success |-> None,
      history |-> << >>,
      last_ping |-> t,
      pinging |-> 0 ]      \* calls of do_ping for this window that have not returned

\* (variant: a window added by hand starts scanning)
empty_scanning(t) == [new("localhost (v4)", "127.0.0.1", t) EXCEPT !.scanning = TRUE]

\* PingWindow::empty: the same fields, with the names of the first default
empty(t) == new("localhost (v4)", "127.0.0.1", t)

\* PingApp::default
DefaultWindows(t) ==
    << new("localhost (v4)", "127.0.0.1", t),
       new("localhost (v6)", "::1", t),
       new("Google DNS", "8.8.8.8", t) >>

---------------------------------------------------------------------------
(* do_ping *)

Panic == [kind |-> "Panic", d |-> 0]
Pending == [kind |-> "Pending", d |-> 0]

\* (variant: the address list is unwrapped instead of matched)
do_ping_lookup_unwrap(lk) ==
    IF lk.state # "ok" THEN Failure
    ELSE IF Len(lk.addrs) = 0 THEN Panic
    ELSE Pending

\* do_ping, the two let-else returns: a failed lookup or an empty address
\* list gives Pong::Failure at once; otherwise the call goes on to ping the
\* first address (Pending)
do_ping_lookup(lk) ==
    IF lk.state # "ok" THEN Failure
    ELSE IF Len(lk.addrs) = 0 THEN Failure
    ELSE Pending

\* do_ping, the rest: the runtime is built and unwrapped (rt = FALSE: build()
\* gave Err, the unwrap panics), then the ping's answer is matched
do_ping_reply(rt, reply) ==
    IF ~rt THEN Panic
    ELSE IF reply.ok THEN Success(reply.d)
    ELSE Failure

---------------------------------------------------------------------------
(* The monitor: the head of the loop body of PingApp::update *)

elapsed(win, t) == t - win.last_ping

\* (variant: the scanning flag is not looked at)
ShouldProbeIdle(win, t) == win.success = None \/ elapsed(win, t) > Cadence

\* (variant: a scanning window is probed on every tick)
ShouldProbeEveryTick(win, t) == win.scanning

\* (variant: a window with a status is not probed again)
ShouldProbeOnce(win, t) == win.scanning /\ win.success = None

\* (variant: the cadence compared with >= instead of >)
ShouldProbeAtCadence(win, t) ==
    win.scanning /\ (win.success = None \/ elapsed(win, t) >= Cadence)

\* the condition of the `if` that guards the probe
ShouldProbe(win, t) ==
    win.scanning /\ (win.success = None \/ elapsed(win, t) > Cadence)

\* (variant: the probe is started and the loop body goes on without it)
LoopPcDetached(probe) == "ui"

\* where the loop body is after that `if`: the call of do_ping is
\* synchronous, the body goes on only when it has returned
LoopPc(probe) == IF probe THEN "ping" ELSE "ui"

\* (variant: a Failure leaves the status as it was)
RecordStale(win, utc, pong, t) ==
    [win EXCEPT !.last_ping = t,
                !.history = Append(@, <<utc, pong>>),
                !.success = IF pong.kind = "Success" THEN Some(TRUE) ELSE @,
                !.pinging = @ - 1]

\* (variant: last_ping takes the time the probe started)
RecordAtStart(win, utc, pong, t) ==
    [win EXCEPT !.last_ping = utc,
                !.history = Append(@, <<utc, pong>>),
                !.success = IF pong.kind = "Success" THEN Some(TRUE) ELSE Some(FALSE),
                !.pinging = @ - 1]

\* the three assignments after do_ping has returned `pong`
Record(win, utc, pong, t) ==
    [win EXCEPT !.last_ping = t,
                !.history = Append(@, <<utc, pong>>),
                !.success = IF pong.kind = "Success" THEN Some(TRUE) ELSE Some(FALSE),
                !.pinging = @ - 1]

---------------------------------------------------------------------------
(* The plot branch of the window closure: the history segmenter *)

\* history.len().saturating_sub(PLOT_LEN)
saturating_sub(a, b) == IF a > b THEN a - b ELSE 0

\* (variant: the slice starts at the oldest entry)
base_oldest(history) == 0

base(history) == saturating_sub(Len(history), PLOT_LEN)

\* win.history[base..]
slice(history) == SubSeq(history, base(history) + 1, Len(history))

\* (variant: positions counted from 1)
enumerate_from_one(s) == [k \in 1..Len(s) |-> <<k, s[k]>>]

\* .iter().enumerate(): each entry with its 0-based position in the slice
enumerate(s) == [k \in 1..Len(s) |-> <<k - 1, s[k]>>]

\* the key closure of group_by, on an item (idx, (time, pong))
key(item) == item[2][2].kind = "Success"

\* itertools group_by: consecutive items with equal keys form one group;
\* the result lists (key, group) in order
RECURSIVE group_by_from(_, _, _)
group_by_from(items, k, acc) ==
    IF k > Len(items) THEN acc
    ELSE IF acc # << >> /\ acc[Len(acc)][1] = key(items[k])
         THEN group_by_from(items, k + 1,
                            [acc EXCEPT ![Len(acc)][2] = Append(@, items[k])])
         ELSE group_by_from(items, k + 1,
                            Append(acc, <<key(items[k]), <<items[k]>>>>))

\* (variant: every item is a group of its own)
group_by_single(items) == [k \in 1..Len(items) |-> <<key(items[k]), <<items[k]>>>>]

\* (variant: the grouping starts with an open, empty group of successes)
group_by_seeded(items) == group_by_from(items, 1, << <<TRUE, << >>>> >>)

group_by(items) == group_by_from(items, 1, << >>)

\* Duration::as_secs_f64 of a duration of d milliseconds: the fraction d/1000
as_secs_f64(d) == <<d, 1000>>

\* what the map closure gives on Pong::Failure: unreachable!()
Unreachable == <<-1, <<0, 0>>>>

\* the map closure: [idx as f64, y]
sample(item) ==
    IF item[2][2].kind = "Failure" THEN Unreachable
    ELSE <<item[1], as_secs_f64(item[2][2].d)>>

\* (variant: no group is skipped)
keep_all(success) == TRUE

\* `if !success { continue; }`: which groups become a line
keep(success) == success

\* the for loop over the groups: one line per kept group
RECURSIVE lines_from(_, _, _)
lines_from(groups, g, acc) ==
    IF g > Len(groups) THEN acc
    ELSE IF ~keep(groups[g][1]) THEN lines_from(groups, g + 1, acc)
    ELSE lines_from(groups, g + 1,
                    Append(acc, [k \in 1..Len(groups[g][2]) |-> sample(groups[g][2][k])]))

history_segments(history) ==
    lines_from(group_by(enumerate(slice(history))), 1, << >>)

\* the closure hit unreachable!() while mapping a group
Unwinds(ls) == \E r \in 1..Len(ls) : \E k \in 1..Len(ls[r]) : ls[r][k] = Unreachable

---------------------------------------------------------------------------
(* PingApp::update, one step at a time *)

Init ==
    /\ windows = DefaultWindows(0)
    /\ now = 0
    /\ pc = "idle"
    /\ idx = 0
    /\ started = 0
    /\ lookup = NoLookup
    /\ lines = << >>
    /\ clicked = FALSE
    /\ frame = 0

\* time passes between two frames and while do_ping blocks
Advance ==
    /\ pc \in {"idle", "ping"}
    /\ now < MaxTime
    /\ now' = now + 1
    /\ UNCHANGED <<windows, pc, idx, started, lookup, lines, clicked, frame>>

\* a frame starts: the central panel, where a double click adds a window
BeginUpdate(double_clicked) ==
    /\ pc = "idle"
    /\ frame < MaxFrames
    /\ frame' = frame + 1
    /\ double_clicked => Len(windows) < MaxWindows
    /\ clicked' = double_clicked
    /\ windows' = IF double_clicked THEN Append(windows, empty(now)) ELSE windows
    /\ idx' = 1
    /\ pc' = IF windows' = << >> THEN "retain" ELSE "tick"
    /\ UNCHANGED <<now, started, lookup, lines>>

\* the head of the loop body: the `if`, and the call of do_ping inside it
Tick ==
    /\ pc = "tick"
    /\ LET probe == ShouldProbe(windows[idx], now) IN
         /\ windows' = IF probe THEN [windows EXCEPT ![idx].pinging = @ + 1]
                       ELSE windows
         /\ started' = IF probe THEN now ELSE started
         /\ pc' = LoopPc(probe)
    /\ UNCHANGED <<now, idx, lookup, lines, clicked, frame>>

\* (variant: the status is one value shared by all the windows)
ReturnShared(pong) ==
    /\ windows' = [i \in 1..Len(windows) |->
                     IF i = idx THEN Record(windows[i], started, pong, now)
                     ELSE [windows[i] EXCEPT
                             !.success = Record(windows[idx], started, pong, now).success]]
    /\ started' = 0
    /\ pc' = "ui"

\* do_ping has returned `pong`: the loop body records it and goes on
Return(pong) ==
    /\ windows' = [windows EXCEPT ![idx] = Record(@, started, pong, now)]
    /\ started' = 0
    /\ pc' = "ui"

\* do_ping is left: with a value, or by a panic that unwinds update
Leave(result) ==
    IF result = Panic
    THEN pc' = "panic" /\ UNCHANGED <<windows, started>>
    ELSE Return(result)

\* do_ping: lookup_host answers
Resolve(lk) ==
    /\ pc = "ping"
    /\ lookup = NoLookup
    /\ lookup' = lk
    /\ IF do_ping_lookup(lk) = Pending
       THEN UNCHANGED <<windows, started, pc>>
       ELSE Leave(do_ping_lookup(lk))
    /\ UNCHANGED <<now, idx, lines, clicked, frame>>

\* do_ping: the runtime is built and the ping answers (or times out)
Reply(rt, reply) ==
    /\ pc = "ping"
    /\ lookup # NoLookup
    /\ Leave(do_ping_reply(rt, reply))
    /\ UNCHANGED <<now, idx, lookup, lines, clicked, frame>>

\* the clicks the window closure can see in one frame
Events == {"none", "scanning", "show_plot", "close"}

\* (variant: the click flips the flag and leaves the status)
ToggleKeepsStatus(win) == [win EXCEPT !.scanning = ~@]

\* (variant: the status is cleared only when scanning is switched on)
ToggleClearsOnEnable(win) ==
    [win EXCEPT !.scanning = ~@, !.success = IF win.scanning THEN @ ELSE None]

\* ui.toggle_value(&mut win.scanning, ..).clicked() and its body
ToggleScanning(win) == [win EXCEPT !.scanning = ~@, !.success = None]

\* ui.toggle_value(&mut win.show_plot, ..)
TogglePlot(win) == [win EXCEPT !.show_plot = ~@]

\* the close button of Window::open(&mut win.open)
CloseWindow(win) == [win EXCEPT !.open = FALSE]

\* the edits the window closure can see in one frame: a click on the group
\* button 1 or 4, the name field emptied, another address typed
Edits == {"group 1", "group 4", "hostname", "address"}

\* `win.group = idx` of the clicked group button
SetGroup(win, g) == [win EXCEPT !.group = g]

\* TextEdit::singleline(&mut win.hostname)
SetHostname(win, text) == [win EXCEPT !.hostname = text]

\* (variant: a new address starts a new history)
SetAddressFresh(win, text) == [win EXCEPT !.address = text, !.history = << >>]

\* TextEdit::singleline(&mut win.address)
SetAddress(win, text) == [win EXCEPT !.address = text]

Clicked(win, ev) ==
    CASE ev = "scanning" -> ToggleScanning(win)
      [] ev = "show_plot" -> TogglePlot(win)
      [] ev = "close" -> CloseWindow(win)
      [] ev = "group 1" -> SetGroup(win, 1)
      [] ev = "group 4" -> SetGroup(win, 4)
      [] ev = "hostname" -> SetHostname(win, "")
      [] ev = "address" -> SetAddress(win, "example.org")
      [] OTHER -> win

\* the plot branch: `if win.show_plot { ... }`
Plot(win) == IF win.show_plot THEN history_segments(win.history) ELSE << >>

\* the rest of the loop body: window.show and its closure, then the next window
Show(ev) ==
    /\ pc = "ui"
    /\ ev # "none" => ~clicked
    /\ clicked' = (clicked \/ ev # "none")
    /\ windows' = [windows EXCEPT ![idx] = Clicked(@, ev)]
    /\ lines' = Plot(windows'[idx])
    /\ lookup' = NoLookup
    /\ pc' = IF Unwinds(lines') THEN "panic"
             ELSE IF idx < Len(windows) THEN "tick" ELSE "retain"
    /\ idx' = IF idx < Len(windows) THEN idx + 1 ELSE idx
    /\ UNCHANGED <<now, started, frame>>

\* (variant: the closure keeps every window)
IsAny(win) == TRUE

\* self.windows.retain(|win| win.open), and the frame ends
IsOpen(win) == win.open

Retain ==
    /\ pc = "retain"
    /\ windows' = SelectSeq(windows, IsOpen)
    /\ pc' = "idle"
    /\ idx' = 0
    /\ lines' = << >>
    /\ clicked' = FALSE
    /\ UNCHANGED <<now, started, lookup, frame>>

Next ==
    \/ Advance
    \/ \E double_clicked \in BOOLEAN : BeginUpdate(double_clicked)
    \/ Tick
    \/ \E lk \in Lookups : Resolve(lk)
    \/ \E rt \in BOOLEAN, reply \in Replies : Reply(rt, reply)
    \/ \E ev \in Events : Show(ev)
    \/ Retain

Spec == Init /\ [][Next]_vars

\* the same program with the edits of the name, the address and the group
\* delivered too
EditNext ==
    \/ Advance
    \/ \E double_clicked \in BOOLEAN :
         frame < MaxEditFrames /\ BeginUpdate(double_clicked)
    \/ Tick
    \/ \E lk \in Lookups : Resolve(lk)
    \/ \E rt \in BOOLEAN, reply \in Replies : Reply(rt, reply)
    \/ \E ev \in Events \cup Edits : Show(ev)
    \/ Retain

EditSpec == Init /\ [][EditNext]_vars

\* a frame that ctx.request_repaint_after(1 s) brings about when the pointer
\* is at rest: update runs with no click to deliver
Redraw ==
    /\ pc = "idle"
    /\ frame >= MaxLiveFrames
    /\ clicked' = TRUE
    /\ idx' = 1
    /\ pc' = IF windows = << >> THEN "retain" ELSE "tick"
    /\ UNCHANGED <<windows, now, started, lookup, lines, frame>>

\* the steps of update and of do_ping: all but the passing of time
Step ==
    \/ \E double_clicked \in BOOLEAN :
         frame < MaxLiveFrames /\ BeginUpdate(double_clicked)
    \/ Redraw
    \/ Tick
    \/ \E lk \in Lookups : Resolve(lk)
    \/ \E rt \in BOOLEAN, reply \in Replies : Reply(rt, reply)
    \/ \E ev \in Events : Show(ev)
    \/ Retain

LiveNext == Advance \/ Step

\* the program kept running: update is called again after every frame (the
\* repaint request at its end), the sequential code of update and do_ping
\* goes on to its next step, and the clock moves on while it can
LiveSpec ==
    /\ Init
    /\ [][LiveNext]_vars
    /\ WF_vars(Step)
    /\ SF_vars(Advance)

---------------------------------------------------------------------------
(* The segmenter on its own: a window whose plot is shown, over histories  *)
(* of up to MaxHead + MaxPad + MaxTail entries, longer than PLOT_LEN.      *)

SegPongs == {Failure, Success(10), Success(20), Success(30)}

SeqsUpTo(S, n) == UNION {[1..k -> S] : k \in 0..n}

Pad(p, n) == [k \in 1..n |-> p]

\* the entries in the order the probes completed, stamped 1, 2, ...
Stamp(ps) == [k \in 1..Len(ps) |-> <<k, ps[k]>>]

SegHistories ==
    { Stamp(h \o Pad(p, n) \o t) :
        h \in SeqsUpTo(SegPongs, MaxHead), p \in {Failure, Success(10)},
        n \in 0..MaxPad, t \in SeqsUpTo(SegPongs, MaxTail) }

SegInit ==
    /\ \E h \in SegHistories :
         windows = << [empty(Len(h)) EXCEPT !.show_plot = TRUE, !.history = h] >>
    /\ now = Len(windows[1].history)
    /\ pc = "ui"
    /\ idx = 1
    /\ started = 0
    /\ lookup = NoLookup
    /\ lines = << >>
    /\ clicked = FALSE
    /\ frame = 1

SegShow == Show("none")

SegNext == SegShow

SegSpec == SegInit /\ [][SegNext]_vars

---------------------------------------------------------------------------
(* Properties of the monitor, under Spec *)

\* C1: on every tick of a window a probe is issued (do_ping is called once
\* for it) if and only if the window is scanning and either its status is
\* None or more than one second has passed since last_ping; otherwise the
\* tick issues nothing and leaves the window as it was.
C1_ProbeIffDue ==
    [][pc = "tick" =>
        LET win == windows[idx]
            due == win.scanning
                   /\ (win.success = << >> \/ now - win.last_ping > 1)
        IN  /\ Len(windows') = Len(windows)
            /\ due => /\ windows'[idx].pinging = win.pinging + 1
                      /\ pc' = "ping"
            /\ ~due => /\ windows'[idx] = win
                       /\ pc' # "ping"]_vars

\* a scanning window without any earlier probe is being probed, and no time
\* has passed since it was created
C1_FirstProbeAtOnce ==
    /\ pc = "ping"
    /\ windows[idx].scanning
    /\ windows[idx].history = << >>
    /\ windows[idx].pinging = 1
    /\ now = windows[idx].last_ping

\* C2: a click that switches scanning from false to true leaves the status
\* None, and a status that is None changes only when a probe result is
\* recorded (one entry is appended to the history in the same step).
C2_EnableClearsStatus ==
    [][(pc \in {"tick", "ping", "ui"}) =>
        /\ Len(windows') = Len(windows)
        /\ \A i \in 1..Len(windows) :
             /\ (~windows[i].scanning /\ windows'[i].scanning)
                    => windows'[i].success = << >>
             /\ (windows[i].success = << >> /\ windows'[i].success # << >>)
                    => Len(windows'[i].history) = Len(windows[i].history) + 1]_vars

\* scanning was switched on again for a window that has earlier results,
\* and no new result has arrived yet
C2_EnabledAgain ==
    \E i \in 1..Len(windows) :
        /\ windows[i].scanning
        /\ windows[i].success = << >>
        /\ windows[i].history # << >>
        /\ windows[i].pinging = 0

\* C3, as claimed: a click that switches scanning from true to false leaves
\* the status as it was.
C3_DisableKeepsStatus ==
    [][(pc = "ui") =>
        \A i \in 1..Len(windows) :
            (windows[i].scanning /\ ~windows'[i].scanning)
                => windows'[i].success = windows[i].success]_vars

\* C3, amended: a click that switches scanning from true to false clears the
\* status to None, as every click on the toggle does; the history is left
\* as it was.
C3_DisableClearsStatus ==
    [][(pc = "ui") =>
        \A i \in 1..Len(windows) :
            (windows[i].scanning /\ ~windows'[i].scanning)
                => /\ windows'[i].success = << >>
                   /\ windows'[i].history = windows[i].history]_vars

\* scanning was switched off for a window whose last probe had a result
C3_DisabledAfterResult ==
    \E i \in 1..Len(windows) :
        /\ ~windows[i].scanning
        /\ windows[i].success = << >>
        /\ windows[i].history # << >>

\* the steps of update outside do_ping
LoopStep ==
    \/ Tick
    \/ \E ev \in Events : Show(ev)
    \/ Retain

\* C4, as claimed: while a probe of one window is outstanding the loop over
\* the windows can go on (the other windows can be ticked and shown).
C4_LoopGoesOn ==
    (\E i \in 1..Len(windows) : windows[i].pinging > 0) => ENABLED LoopStep

\* C5: no window ever has more than one probe outstanding.
C5_OneProbeInFlight ==
    \A i \in 1..Len(windows) : windows[i].pinging <= 1

\* a probe is outstanding: the lookup gave an address and the ping has not
\* answered yet
C5_ProbeOutstanding ==
    /\ pc = "ping"
    /\ lookup.state = "ok"
    /\ windows[idx].pinging = 1

\* C10: when the lookup of a probe fails (an error, or no address), the
\* window gets one more history entry, a Failure stamped with the time the
\* probe started, its status becomes Some(false), it stays in the registry
\* open and scanning as before, and update goes on to show it: no panic.
C10_LookupFailureIsFailure ==
    [][(pc = "ping" /\ lookup.state = "none"
        /\ (lookup'.state = "err" \/ (lookup'.state = "ok" /\ lookup'.addrs = << >>))) =>
        /\ Len(windows') = Len(windows)
        /\ windows'[idx].history = Append(windows[idx].history, <<started, Failure>>)
        /\ windows'[idx].success = <<FALSE>>
        /\ windows'[idx].open = windows[idx].open
        /\ windows'[idx].scanning = windows[idx].scanning
        /\ windows'[idx].pinging = 0
        /\ \A j \in 1..Len(windows) : j # idx => windows'[j] = windows[j]
        /\ pc' = "ui"]_vars

\* a lookup has just answered with no address and the Failure is recorded
C10_LookupFailed ==
    /\ pc = "ui"
    /\ lookup = LookupOk(<< >>)
    /\ windows[idx].success = <<FALSE>>
    /\ windows[idx].history[Len(windows[idx].history)][2] = Failure

---------------------------------------------------------------------------
(* Properties of the segmenter, under SegSpec *)

\* the frame has gone through the plot branch of the window
Plotted == pc # "ui"

\* the history the plot was made from
Shown == windows[1].history

\* the last min(PLOT_LEN, len) entries of a history
Window(h) ==
    LET n == IF Len(h) < PLOT_LEN THEN Len(h) ELSE PLOT_LEN
    IN  [k \in 1..n |-> h[Len(h) - n + k]]

RECURSIVE Concat(_)
Concat(runs) == IF runs = << >> THEN << >> ELSE Head(runs) \o Concat(Tail(runs))

\* C6: no run holds a point of a Failure entry: the plot is made without
\* reaching unreachable!(), and every point of every run stands at a
\* position of the window whose entry is a Success.
C6_NoFailureInRun ==
    Plotted =>
        /\ pc # "panic"
        /\ \A r \in 1..Len(lines) : \A k \in 1..Len(lines[r]) :
             /\ lines[r][k][1] \in 0..(Len(Window(Shown)) - 1)
             /\ Window(Shown)[lines[r][k][1] + 1][2].kind = "Success"

\* a plot of a window that holds failures and successes
C6_MixedWindow ==
    /\ Plotted
    /\ lines # << >>
    /\ \E k \in 1..Len(Window(Shown)) : Window(Shown)[k][2].kind = "Failure"
    /\ Window(Shown)[Len(Window(Shown))][2].kind = "Failure"

\* C7: the points of all runs, one run after the other, are entries of the
\* window (the last min(PLOT_LEN, len) entries of the history) that are
\* successes, each with its own latency, at strictly increasing positions:
\* a subsequence of the window's successes in chronological order.
C7_RunsAreSubsequence ==
    Plotted =>
        LET pts == Concat(lines)
            win == Window(Shown)
        IN  /\ \A k \in 1..Len(pts) :
                 /\ pts[k][1] \in 0..(Len(win) - 1)
                 /\ win[pts[k][1] + 1][2].kind = "Success"
                 /\ pts[k][2] = <<win[pts[k][1] + 1][2].d, 1000>>
            /\ \A k \in 1..(Len(pts) - 1) : pts[k][1] < pts[k + 1][1]

\* a plot with at least two runs of a history longer than the window
C7_TwoRunsOfLongHistory ==
    /\ Plotted
    /\ Len(Shown) > PLOT_LEN
    /\ Len(lines) >= 2

\* the history and the plot of the example
ExampleHistory ==
    << <<1, Success(10)>>, <<2, Failure>>, <<3, Success(20)>>, <<4, Success(30)>> >>

ExampleLines ==
    << << <<0, <<10, 1000>>>> >>,
       << <<2, <<20, 1000>>>>, <<3, <<30, 1000>>>> >> >>

\* C8: the points emitted are exactly, for every Success entry of the
\* window, its 0-based position in the window with its latency in seconds
\* (a Failure entry has a position and no point); the example history
\* [Success 10 ms, Failure, Success 20 ms, Success 30 ms] gives the runs
\* [(0, 0.010)] and [(2, 0.020), (3, 0.030)].
C8_PointsAreWindowPositions ==
    Plotted =>
        LET pts == Concat(lines)
            win == Window(Shown)
        IN  /\ {pts[k] : k \in 1..Len(pts)} =
                 { <<k - 1, <<win[k][2].d, 1000>>>> :
                     k \in {j \in 1..Len(win) : win[j][2].kind = "Success"} }
            /\ Shown = ExampleHistory => lines = ExampleLines

\* a plot of a history longer than the window: the first point stands at
\* position 0 for the oldest entry of the window, the history itself starts
\* with a Failure, and the window holds a Failure
C8_PositionsOfTruncatedHistory ==
    /\ Plotted
    /\ Len(Shown) > PLOT_LEN
    /\ lines # << >>
    /\ lines[1][1] = <<0, <<Shown[Len(Shown) - PLOT_LEN + 1][2].d, 1000>>>>
    /\ Shown[1][2].kind = "Failure"
    /\ \E k \in 1..PLOT_LEN : Window(Shown)[k][2].kind = "Failure"

\* C9: an empty history gives no run, a window of failures only gives no
\* run, and no run is ever empty.
C9_NoEmptyRun ==
    Plotted =>
        /\ Shown = << >> => lines = << >>
        /\ (\A k \in 1..Len(Window(Shown)) : Window(Shown)[k][2].kind = "Failure")
               => lines = << >>
        /\ \A r \in 1..Len(lines) : lines[r] # << >>

\* a plot of a full window of failures only, of a history that has an
\* older success
C9_WindowOfFailures ==
    /\ Plotted
    /\ lines = << >>
    /\ Len(Shown) > PLOT_LEN
    /\ Shown[1][2].kind = "Success"
    /\ \A k \in 1..Len(Window(Shown)) : Window(Shown)[k][2].kind = "Failure"

---------------------------------------------------------------------------
(* Further properties of the monitor, under Spec *)

\* C11: a probe that completes (do_ping returns a Pong) sets last_ping to
\* the time of the return, appends exactly one entry to the history, the
\* time the probe started with the outcome, and sets the status to
\* Some(true) for a Success and Some(false) for a Failure: never None.
C11_CompletedProbeEffect ==
    [][(pc = "ping" /\ pc' = "ui") =>
        LET win == windows[idx]
            after == windows'[idx]
            entry == after.history[Len(after.history)]
        IN  /\ Len(windows') = Len(windows)
            /\ after.last_ping = now
            /\ after.history = Append(win.history, entry)
            /\ entry[1] = started
            /\ entry[2].kind \in {"Success", "Failure"}
            /\ after.success = IF entry[2].kind = "Success" THEN <<TRUE>> ELSE <<FALSE>>
            /\ after.success # << >>
            /\ after.pinging = win.pinging - 1]_vars

\* a ping has just answered after some time: the entry carries the start
\* time, last_ping the later time of the return
C11_ProbeCompleted ==
    /\ pc = "ui"
    /\ lookup.state = "ok"
    /\ windows[idx].success = <<TRUE>>
    /\ windows[idx].last_ping = now
    /\ windows[idx].history[Len(windows[idx].history)][1] < now

\* C13: when a window is probed again without a click on its scanning
\* toggle since its last probe (its status is still Some), more than one
\* second has passed since that probe returned, however many frames were
\* run in between.
C13_ProbesApartByCadence ==
    [][(pc = "tick" /\ pc' = "ping" /\ windows[idx].success # << >>) =>
        /\ windows[idx].history # << >>
        /\ now - windows[idx].last_ping > 1
        /\ started' - windows[idx].history[Len(windows[idx].history)][1] > 1]_vars

\* a second probe of a window is outstanding, started two seconds after
\* the first, with no toggle in between
C13_SecondProbe ==
    /\ pc = "ping"
    /\ windows[idx].success # << >>
    /\ Len(windows[idx].history) = 1
    /\ started = windows[idx].last_ping + 2

\* C14, as claimed: the click that switches scanning off changes nothing of
\* the window but the scanning flag, and no entry is appended to the history
\* of a window that is not scanning.
C14_DisableOnlyStopsProbes ==
    [][(pc \in {"tick", "ping", "ui"}) =>
        \A i \in 1..Len(windows) :
            /\ (windows[i].scanning /\ ~windows'[i].scanning)
                   => windows'[i] = [windows[i] EXCEPT !.scanning = FALSE]
            /\ ~windows[i].scanning
                   => windows'[i].history = windows[i].history]_vars

\* C14, amended: the click that switches scanning off changes the scanning
\* flag and clears the status to None, and nothing else of the window (the
\* history is kept); no entry is appended to the history of a window that
\* is not scanning.
C14_DisableStopsProbesClearsStatus ==
    [][(pc \in {"tick", "ping", "ui"}) =>
        \A i \in 1..Len(windows) :
            /\ (windows[i].scanning /\ ~windows'[i].scanning)
                   => windows'[i] =
                        [windows[i] EXCEPT !.scanning = FALSE, !.success = << >>]
            /\ ~windows[i].scanning
                   => windows'[i].history = windows[i].history]_vars

\* a window that was probed and then switched off has been ticked again,
\* and no probe was started for it
C14_IdleWindowTicked ==
    /\ pc = "ui"
    /\ lookup = NoLookup
    /\ ~windows[idx].scanning
    /\ windows[idx].history # << >>
    /\ windows[idx].pinging = 0

\* a window as it is created, as far as the monitor goes
Fresh(win) ==
    /\ ~win.scanning
    /\ win.history = << >>
    /\ win.success = << >>
    /\ win.pinging = 0

\* C15: the three default windows and every window added by a double click
\* start with scanning = false, an empty history and the status None, and a
\* window stays that way, with no probe started for it, until a click
\* switches its scanning on.
C15_WindowsStartIdle ==
    /\ \A i \in 1..Len(windows) : Fresh(windows[i])
    /\ [][/\ Len(windows') > Len(windows)
               => /\ Len(windows') = Len(windows) + 1
                  /\ Fresh(windows'[Len(windows')])
          /\ (pc \in {"idle", "tick", "ping", "ui"})
               => \A i \in 1..Len(windows) :
                     (Fresh(windows[i]) /\ ~windows'[i].scanning)
                         => Fresh(windows'[i])]_vars

\* a window added by a double click has been ticked, and is as it was made
C15_AddedWindowTicked ==
    /\ pc = "ui"
    /\ clicked
    /\ idx = Len(windows)
    /\ windows[idx].last_ping > 0
    /\ Fresh(windows[idx])

\* C18: in every state a status Some(b) comes with a history that is not
\* empty and whose last entry is a Success exactly when b is true (the
\* status may be None over any history, after a click on the toggle).
C18_StatusMatchesHistory ==
    \A i \in 1..Len(windows) :
        windows[i].success # << >> =>
            /\ windows[i].history # << >>
            /\ windows[i].success[1] =
                 (windows[i].history[Len(windows[i].history)][2].kind = "Success")

\* a window whose second probe failed after a first that succeeded
C18_FailedAfterSuccess ==
    \E i \in 1..Len(windows) :
        /\ windows[i].success = <<FALSE>>
        /\ Len(windows[i].history) = 2
        /\ windows[i].history[1][2].kind = "Success"

\* the open windows of a list, in their order
RECURSIVE OpenOnes(_)
OpenOnes(ws) ==
    IF ws = << >> THEN << >>
    ELSE (IF Head(ws).open THEN <<Head(ws)>> ELSE << >>) \o OpenOnes(Tail(ws))

\* C19: a closed window is never ticked: when a frame starts every window
\* of the list is open, the window at the head of the loop body is open, a
\* window with a probe outstanding is open, and the end of the frame leaves
\* exactly the open windows, unchanged and in their order.
C19_ClosedWindowsNeverTicked ==
    /\ \A i \in 1..Len(windows) : windows[i].open
    /\ [][/\ pc' = "idle" => \A i \in 1..Len(windows') : windows'[i].open
          /\ pc' \in {"tick", "ping"} => windows'[idx'].open
          /\ \A i \in 1..Len(windows') : windows'[i].pinging > 0 => windows'[i].open
          /\ pc = "retain" => windows' = OpenOnes(windows)]_vars

\* the second default window was closed and dropped; the third, which has
\* been probed, follows the first
C19_MiddleWindowDropped ==
    /\ pc = "idle"
    /\ Len(windows) = 2
    /\ windows[1].hostname = "localhost (v4)"
    /\ windows[2].hostname = "Google DNS"
    /\ windows[2].history # << >>

---------------------------------------------------------------------------
(* Properties under EditSpec: all the clicks and edits of a window *)

IsPrefix(s, t) == Len(s) <= Len(t) /\ SubSeq(t, 1, Len(s)) = s

\* the windows of a list that are open, in their order
RECURSIVE Kept(_)
Kept(ws) ==
    IF ws = << >> THEN << >>
    ELSE (IF Head(ws).open THEN <<Head(ws)>> ELSE << >>) \o Kept(Tail(ws))

\* C12: the history of a window only grows at its end: in every step (a
\* tick, a probe, a toggle, an edit of the name, the address or the group)
\* the history before is a prefix of the history after, and when closed
\* windows are dropped the windows that stay keep their histories.
C12_HistoryAppendOnly ==
    [][IF pc = "retain"
       THEN /\ Len(windows') = Len(Kept(windows))
            /\ \A k \in 1..Len(windows') :
                 windows'[k].history = Kept(windows)[k].history
       ELSE /\ Len(windows') >= Len(windows)
            /\ \A i \in 1..Len(windows) :
                 IsPrefix(windows[i].history, windows'[i].history)]_vars

\* a window with a recorded probe whose address was edited afterwards
C12_EditedAfterProbe ==
    \E i \in 1..Len(windows) :
        /\ windows[i].history # << >>
        /\ windows[i].address = "example.org"

\* the monitor state of a window
Monitor(win) == <<win.scanning, win.success, win.last_ping, win.history>>

\* C16: a step of the loop body for one window (its tick, its probe, a
\* click on one of its toggles or an edit of its fields) leaves the scanning
\* flag, the status, last_ping and the history of every other window as
\* they were; so does a double click that adds a window, and dropping the
\* closed windows leaves those of the windows that stay.
C16_OtherWindowsUntouched ==
    [][CASE pc \in {"tick", "ping", "ui"} ->
              /\ Len(windows') = Len(windows)
              /\ \A j \in 1..Len(windows) :
                   j # idx => Monitor(windows'[j]) = Monitor(windows[j])
         [] pc = "retain" ->
              /\ Len(windows') = Len(Kept(windows))
              /\ \A k \in 1..Len(windows') :
                   Monitor(windows'[k]) = Monitor(Kept(windows)[k])
         [] OTHER ->
              \A j \in 1..Len(windows) :
                   Monitor(windows'[j]) = Monitor(windows[j])]_vars

\* a probe of one window has just been recorded while another window,
\* whose group was changed, has no status
C16_ProbeBesideOthers ==
    /\ pc = "ui"
    /\ lookup # NoLookup
    /\ windows[idx].success # << >>
    /\ \E j \in 1..Len(windows) :
         j # idx /\ windows[j].group = 1 /\ windows[j].success = << >>

---------------------------------------------------------------------------
(* A further property of the segmenter, under SegSpec *)

\* C17: the runs are maximal: inside a run each position is the one before
\* plus 1; between the last position of a run and the first of the next one
\* the window holds at least one Failure; and every Success entry of the
\* window has its position in exactly one place of exactly one run.
C17_RunsAreMaximal ==
    Plotted =>
        LET win == Window(Shown)
            places == {<<r, k>> \in (1..Len(lines)) \X (1..PLOT_LEN) : k <= Len(lines[r])}
        IN  /\ \A r \in 1..Len(lines) : \A k \in 1..(Len(lines[r]) - 1) :
                 lines[r][k + 1][1] = lines[r][k][1] + 1
            /\ \A r \in 1..(Len(lines) - 1) :
                 \E p \in (lines[r][Len(lines[r])][1] + 1)..(lines[r + 1][1][1] - 1) :
                     win[p + 1][2].kind = "Failure"
            /\ \A p \in 0..(Len(win) - 1) :
                 win[p + 1][2].kind = "Success"
                     => Cardinality({pl \in places : lines[pl[1]][pl[2]][1] = p}) = 1

\* a plot with two runs, the first of several points, two failures apart
C17_TwoRunsWideGap ==
    /\ Plotted
    /\ Len(lines) = 2
    /\ Len(lines[1]) >= 2
    /\ lines[2][1][1] = lines[1][Len(lines[1])][1] + 3


---------------------------------------------------------------------------
(* Properties under LiveSpec: the program kept running *)

\* the default windows whose name no other window bears
Hosts == {"localhost (v6)", "Google DNS"}

Has(h) == \E i \in 1..Len(windows) : windows[i].hostname = h

Named(h) == windows[CHOOSE i \in 1..Len(windows) : windows[i].hostname = h]

\* the window named h is being polled and has n entries; its next probe is
\* due at once or at a time the clock still reaches
Polled(h, n) ==
    /\ pc # "panic"
    /\ Has(h)
    /\ Named(h).open
    /\ Named(h).scanning
    /\ Len(Named(h).history) = n
    /\ Named(h).success = None \/ Named(h).last_ping + Cadence < MaxTime

\* the window named h is gone or switched off, or update has unwound
Stopped(h) ==
    \/ pc = "panic"
    \/ ~Has(h)
    \/ ~Named(h).open
    \/ ~Named(h).scanning

\* C20: polling retries for ever: a window that stays open and scanning,
\* while frames keep coming, the clock moves on and every call of do_ping
\* returns, gets one more history entry, whatever the entries before were.
C20_PollingGoesOn ==
    \A h \in Hosts : \A n \in 0..(MaxLiveFrames + MaxTime) :
        Polled(h, n) ~> (Stopped(h) \/ (Has(h) /\ Len(Named(h).history) > n))

\* a window was probed again, one cadence later, after a failed probe, in a
\* frame that no click brought about
C20_ProbedAgainAfterFailure ==
    /\ pc = "idle"
    /\ frame = MaxLiveFrames
    /\ \E h \in Hosts :
         /\ Has(h)
         /\ Named(h).scanning
         /\ Len(Named(h).history) = 2
         /\ Named(h).history[1][2] = Failure
         /\ Named(h).history[2][1] > Named(h).history[1][1] + Cadence

=============================================================================
